---- MODULE Spec2Model ----
(***************************************************************************)
(* The Ohmyfin API client (src/ohmyfin/client.py): construction of the     *)
(* client, the four operations track, change, validate and get_ssi, and    *)
(* the request primitive _request they share.  The HTTP transport          *)
(* (urllib.request.urlopen) and the remote service are the environment:    *)
(* they answer each issued request with a response (status and body) or    *)
(* with a transport failure.                                               *)
(***************************************************************************)
EXTENDS Integers, Sequences, FiniteSets, TLC

(***************************************************************************)
(* Bounds of the model.                                                    *)
(***************************************************************************)
\* number of caller threads that share the one client instance
NumThreads == 2
\* longest base address given to the constructor, in characters
MaxBaseLen == 2

Threads == 1..NumThreads
MainThread == 1

(***************************************************************************)
(* Python values, tagged by their type.                                    *)
(***************************************************************************)
None == [t |-> "None"]
Str(s) == [t |-> "str", v |-> s]
Num(n) == [t |-> "num", v |-> n]
Dict(f) == [t |-> "dict", v |-> f]
List(s) == [t |-> "list", v |-> s]
EmptyDict == Dict(<<>>)

\* Python truthiness, as used by `if x:`, `not x` and `x or y`
Truthy(x) ==
    CASE x.t = "None" -> FALSE
      [] x.t = "str"  -> x.v # ""
      [] x.t = "num"  -> x.v # 0
      [] x.t = "dict" -> DOMAIN x.v # {}
      [] x.t = "list" -> x.v # <<>>

\* `x or y`
Or(x, y) == IF Truthy(x) THEN x ELSE y

\* `d[k] = v` on a dict held as a function from keys to values
Put(d, k, v) == [x \in (DOMAIN d) \cup {k} |-> IF x = k THEN v ELSE d[x]]

(***************************************************************************)
(* JSON text and bytes.  A JSON document is a tree tagged with the JSON    *)
(* types; a text is either a valid document or not JSON at all; a byte     *)
(* string is either the UTF-8 encoding of a text or not valid UTF-8.       *)
(***************************************************************************)
RECURSIVE ToJson(_)
ToJson(x) ==
    CASE x.t = "None" -> [j |-> "null"]
      [] x.t = "str"  -> [j |-> "string", v |-> x.v]
      [] x.t = "num"  -> [j |-> "number", v |-> x.v]
      [] x.t = "dict" -> [j |-> "object", v |-> [k \in DOMAIN x.v |-> ToJson(x.v[k])]]
      [] x.t = "list" -> [j |-> "array", v |-> [i \in DOMAIN x.v |-> ToJson(x.v[i])]]

RECURSIVE FromJson(_)
FromJson(d) ==
    CASE d.j = "null"   -> None
      [] d.j = "string" -> Str(d.v)
      [] d.j = "number" -> Num(d.v)
      [] d.j = "object" -> Dict([k \in DOMAIN d.v |-> FromJson(d.v[k])])
      [] d.j = "array"  -> List([i \in DOMAIN d.v |-> FromJson(d.v[i])])

\* json.dumps(data): the text of the document
json_dumps(x) == [json |-> "valid", doc |-> ToJson(x)]

\* text.encode('utf-8')
encode_utf8(text) == [enc |-> "utf-8", text |-> text]

\* what a statement hands on: a value, or a raised exception
Value(x) == [kind |-> "value", value |-> x]
Raise(e) == [kind |-> "raise", exc |-> e]

\* bytes.decode('utf-8')
decode_utf8(bytes) ==
    IF bytes.enc = "utf-8" THEN Value(bytes.text)
    ELSE Raise([type |-> "UnicodeDecodeError"])

\* json.loads(text)
json_loads(text) ==
    IF text.json = "valid" THEN Value(FromJson(text.doc))
    ELSE Raise([type |-> "JSONDecodeError"])

\* json.loads(body.decode('utf-8'))
loads_decoded(bytes) ==
    LET s == decode_utf8(bytes)
    IN  IF s.kind = "raise" THEN s ELSE json_loads(s.value)

(***************************************************************************)
(* Exceptions.                                                             *)
(***************************************************************************)
\* the base class of each exception class the client meets (client.py:16 for
\* OhmyfinError; the others are the built-in hierarchy the except clauses of
\* _request select on)
BaseOf(c) ==
    CASE c = "JSONDecodeError"    -> "ValueError"
      [] c = "UnicodeDecodeError" -> "ValueError"
      [] c = "HTTPError"          -> "URLError"
      [] c = "URLError"           -> "OSError"
      [] OTHER                    -> "Exception"

RECURSIVE IsSubclass(_, _)
IsSubclass(c, d) ==
    \/ c = d
    \/ c # "Exception" /\ IsSubclass(BaseOf(c), d)

\* whether `except cls:` catches the exception
Catches(cls, exc) == IsSubclass(exc.type, cls)

ValueError(msg) == [type |-> "ValueError", message |-> Str(msg)]

\* OhmyfinError.__init__
OhmyfinError(message, status_code, errors) ==
    [type |-> "OhmyfinError", message |-> message, status_code |-> status_code,
     errors |-> Or(errors, EmptyDict)]

(***************************************************************************)
(* The state.                                                              *)
(***************************************************************************)
VARIABLES
    client,        \* the client instance: NoClient, or its api_key, base_url, timeout
    construction,  \* the last call of the constructor: its arguments and outcome
    pc,            \* per thread: where its call of an operation stands
    op,            \* per thread: the operation called
    args,          \* per thread: the arguments of the call
    data,          \* per thread: the payload dict the operation built
    request,       \* per thread: the Request handed to urlopen
    sent,          \* per thread: the HTTP requests the call has issued
    response,      \* per thread: what the transport answered
    outcome        \* per thread: what the call handed to its caller

vars == <<client, construction, pc, op, args, data, request, sent, response, outcome>>

Nil == [t |-> "nil"]
NoClient == [t |-> "NoClient"]

(***************************************************************************)
(* Construction, Ohmyfin.__init__.                                         *)
(***************************************************************************)
\* a strip of one trailing slash only
rstrip_one(s) ==
    IF s # <<>> /\ s[Len(s)] = "/" THEN SubSeq(s, 1, Len(s) - 1) ELSE s

\* str.rstrip('/') on a string held as the sequence of its characters
RECURSIVE rstrip(_)
rstrip(s) ==
    IF s # <<>> /\ s[Len(s)] = "/" THEN rstrip(SubSeq(s, 1, Len(s) - 1)) ELSE s

\* `if api_key is None`
init_rejects_None(api_key) == api_key = None

\* `if not api_key`
init_rejects(api_key) == ~Truthy(api_key)

Ohmyfin_init(api_key, base_url, timeout) ==
    /\ client = NoClient
    /\ IF init_rejects(api_key)
       THEN /\ construction' =
                  [api_key |-> api_key, base_url |-> base_url, timeout |-> timeout,
                   outcome |-> Raise(ValueError("API key is required. Get your API key at https://ohmyfin.ai"))]
            /\ client' = client
       ELSE LET self == [api_key |-> api_key, base_url |-> rstrip(base_url),
                         timeout |-> timeout]
            IN  /\ construction' =
                      [api_key |-> api_key, base_url |-> base_url, timeout |-> timeout,
                       outcome |-> Value(self)]
                /\ client' = self
    /\ UNCHANGED <<pc, op, args, data, request, sent, response, outcome>>

(***************************************************************************)
(* The payload each operation builds.                                      *)
(***************************************************************************)
\* `if v is not None: data[k] = v`
OptPut_not_None(d, k, v) == IF v # None THEN Put(d, k, v) ELSE d

\* `if v: data[k] = v`
OptPut(d, k, v) == IF Truthy(v) THEN Put(d, k, v) ELSE d

track_invalid(a) == ~Truthy(a.uetr) /\ ~Truthy(a.ref)

track_data(a) ==
    LET d0 == [amount |-> a.amount, date |-> a.date, currency |-> a.currency]
        d1 == OptPut(d0, "uetr", a.uetr)
    IN  OptPut(d1, "ref", a.ref)

\* change with `and` where the code has `or` in its second check
change_invalid_and(a) ==
    \/ ~Truthy(a.uetr) /\ ~Truthy(a.ref)
    \/ ~Truthy(a.status) /\ ~Truthy(a.role)

change_invalid(a) ==
    \/ ~Truthy(a.uetr) /\ ~Truthy(a.ref)
    \/ ~Truthy(a.status) \/ ~Truthy(a.role)

change_message(a) ==
    IF ~Truthy(a.uetr) /\ ~Truthy(a.ref) THEN "Either uetr or ref is required"
    ELSE "status and role are required"

change_data(a) ==
    LET d0 == [amount |-> a.amount, date |-> a.date, currency |-> a.currency,
               status |-> a.status, role |-> a.role]
        d1 == OptPut(d0, "uetr", a.uetr)
        d2 == OptPut(d1, "ref", a.ref)
        d3 == OptPut(d2, "swift", a.swift)
        d4 == OptPut(d3, "nextName", a.next_name)
        d5 == OptPut(d4, "nextSwift", a.next_swift)
        d6 == OptPut(d5, "message", a.message)
    IN  OptPut(d6, "details", a.details)

validate_invalid(a) == ~Truthy(a.beneficiary_bic) \/ ~Truthy(a.currency)

validate_data(a) ==
    LET d0 == [beneficiary_bic |-> a.beneficiary_bic, currency |-> a.currency]
        d1 == OptPut(d0, "correspondent_bic", a.correspondent_bic)
        d2 == OptPut(d1, "correspondent_account", a.correspondent_account)
        d3 == OptPut(d2, "beneficiary_iban", a.beneficiary_iban)
        d4 == OptPut(d3, "beneficiary_owner", a.beneficiary_owner)
        d5 == OptPut(d4, "beneficiary_country", a.beneficiary_country)
        d6 == OptPut(d5, "beneficiary_region", a.beneficiary_region)
        d7 == OptPut(d6, "sender_bic", a.sender_bic)
    IN  OptPut(d7, "sender_correspondent_bic", a.sender_correspondent_bic)

get_ssi_invalid(a) == ~Truthy(a.swift) \/ ~Truthy(a.currency)

get_ssi_data(a) == [swift |-> a.swift, currency |-> a.currency]

\* the path each operation hands to _request
PathOf(o) ==
    CASE o = "track"    -> "/api/track"
      [] o = "change"   -> "/api/change"
      [] o = "validate" -> "/api/validate"
      [] o = "get_ssi"  -> "/api/getssi"

(***************************************************************************)
(* The operations, up to their call of _request.  A call that fails its    *)
(* check of the required parameters raises at once; the others hold their  *)
(* payload and stand at the entry of _request.                             *)
(***************************************************************************)
Begin(t, o, a, invalid, msg, d) ==
    /\ op' = [op EXCEPT ![t] = o]
    /\ args' = [args EXCEPT ![t] = a]
    /\ IF invalid
       THEN /\ pc' = [pc EXCEPT ![t] = "done"]
            /\ outcome' = [outcome EXCEPT ![t] = Raise(ValueError(msg))]
            /\ data' = data
       ELSE /\ pc' = [pc EXCEPT ![t] = "_request"]
            /\ data' = [data EXCEPT ![t] = d]
            /\ outcome' = outcome
    /\ UNCHANGED <<client, construction, request, sent, response>>

\* thread t is free to call an operation of the client
CanCall(t) == client # NoClient /\ pc[t] = "idle"

\* each operation, called by thread t with arguments drawn from A
track(t, A) ==
    /\ CanCall(t)
    /\ \E a \in A :
          Begin(t, "track", a, track_invalid(a), "Either uetr or ref is required",
                track_data(a))

change(t, A) ==
    /\ CanCall(t)
    /\ \E a \in A :
          Begin(t, "change", a, change_invalid(a), change_message(a), change_data(a))

validate(t, A) ==
    /\ CanCall(t)
    /\ \E a \in A :
          Begin(t, "validate", a, validate_invalid(a),
                "beneficiary_bic and currency are required", validate_data(a))

get_ssi(t, A) ==
    /\ CanCall(t)
    /\ \E a \in A :
          Begin(t, "get_ssi", a, get_ssi_invalid(a), "swift and currency are required",
                get_ssi_data(a))

(***************************************************************************)
(* The request primitive, Ohmyfin._request.                                *)
(***************************************************************************)
\* lines 77-88: the Request built from the configuration and the payload
build_request(self, method, path, d) ==
    [full_url |-> self.base_url \o <<path>>,
     headers  |-> [KEY |-> self.api_key,
                   Content_Type |-> Str("application/json"),
                   Accept |-> Str("application/json"),
                   User_Agent |-> Str("ohmyfin-python/1.0.0")],
     data     |-> IF Truthy(Dict(d)) THEN encode_utf8(json_dumps(Dict(d))) ELSE None,
     method   |-> method,
     timeout  |-> self.timeout]

\* a client that keeps the payload of the latest call in one slot that every
\* thread's _request reads
SendCall_shared_payload(t) ==
    /\ pc[t] = "_request"
    /\ LET u == CHOOSE u \in Threads : pc[u] = "_request"
       IN  request' = [request EXCEPT
                          ![t] = build_request(client, "POST", PathOf(op[t]), data[u])]
    /\ sent' = [sent EXCEPT ![t] = sent[t] + 1]
    /\ pc' = [pc EXCEPT ![t] = "urlopen"]
    /\ UNCHANGED <<op, args, data, response, outcome>>

\* the part of the step that issues the request which is local to the call
SendCall(t) ==
    /\ pc[t] = "_request"
    /\ request' = [request EXCEPT ![t] = build_request(client, "POST", PathOf(op[t]), data[t])]
    /\ sent' = [sent EXCEPT ![t] = sent[t] + 1]
    /\ pc' = [pc EXCEPT ![t] = "urlopen"]
    /\ UNCHANGED <<op, args, data, response, outcome>>

\* a _request that stores the URL it built in self.base_url
request_urlopen_storing_url(t) ==
    /\ SendCall(t)
    /\ client' = [client EXCEPT !.base_url = client.base_url \o <<PathOf(op[t])>>]
    /\ UNCHANGED construction

\* lines 77-91: _request up to urlopen, which sends the request and blocks
request_urlopen(t) ==
    /\ SendCall(t)
    /\ UNCHANGED <<client, construction>>

\* what urlopen hands back for an answer of the transport: the response when
\* its status is 2xx, HTTPError for any other status, URLError when the
\* transport failed (timeout, refused connection, DNS failure)
urlopen(r) ==
    IF r.kind = "failure" THEN Raise([type |-> "URLError"])
    ELSE IF 200 <= r.status /\ r.status < 300 THEN Value(r)
    ELSE Raise([type |-> "HTTPError", code |-> r.status, body |-> r.body])

\* `d.get(k, default)`; only a dict has the method
dict_get(x, k, default) ==
    IF x.t # "dict" THEN Raise([type |-> "AttributeError"])
    ELSE IF k \in DOMAIN x.v THEN Value(x.v[k]) ELSE Value(default)

\* a client that adds the HTTP status to the mapping it returns
return_decoded_with_status(resp) ==
    LET x == loads_decoded(resp.body)
    IN  IF x.kind = "value" /\ x.value.t = "dict"
        THEN Value(Dict(Put(x.value.v, "status_code", Num(resp.status))))
        ELSE x

\* line 92: return json.loads(response.read().decode('utf-8'))
return_decoded(resp) == loads_decoded(resp.body)

\* line 102
status_message(code) == Str("API request failed with status " \o ToString(code))

\* lines 93-102: except HTTPError as e
except_HTTPError(e) ==
    LET error_body == loads_decoded(e.body)
    IN  IF error_body.kind = "raise"
        THEN IF Catches("JSONDecodeError", error_body.exc)
             THEN Raise(OhmyfinError(status_message(e.code), Num(e.code), None))
             ELSE error_body
        ELSE LET message == dict_get(error_body.value, "message", Str("API request failed"))
                 errors  == dict_get(error_body.value, "errors", None)
             IN  IF message.kind = "raise" THEN message
                 ELSE Raise(OhmyfinError(message.value, Num(e.code), errors.value))

\* lines 90-102: what _request hands to its caller for an answer of the transport
request_result(r) ==
    LET u == urlopen(r)
    IN  IF u.kind = "value" THEN return_decoded(u.value)
        ELSE IF Catches("HTTPError", u.exc) THEN except_HTTPError(u.exc)
        ELSE u

Finish(t, r) ==
    /\ pc[t] = "urlopen"
    /\ response' = [response EXCEPT ![t] = r]
    /\ outcome' = [outcome EXCEPT ![t] = request_result(r)]
    /\ pc' = [pc EXCEPT ![t] = "done"]
    /\ UNCHANGED <<client, construction, op, args, data, request, sent>>

\* the service answers 2xx: lines 91-92
urlopen_returns(t, r) ==
    /\ r.kind = "response" /\ urlopen(r).kind = "value"
    /\ Finish(t, r)

\* the service answers with another status: lines 93-102
urlopen_HTTPError(t, r) ==
    /\ r.kind = "response" /\ urlopen(r).kind = "raise"
    /\ Finish(t, r)

\* the transport fails: no except clause of _request catches it
urlopen_fails(t) == Finish(t, [kind |-> "failure"])

\* the caller has the outcome; the frame of the call is gone
Return(t) ==
    /\ pc[t] = "done"
    /\ pc' = [pc EXCEPT ![t] = "idle"]
    /\ op' = [op EXCEPT ![t] = Nil]
    /\ args' = [args EXCEPT ![t] = Nil]
    /\ data' = [data EXCEPT ![t] = Nil]
    /\ request' = [request EXCEPT ![t] = Nil]
    /\ sent' = [sent EXCEPT ![t] = 0]
    /\ response' = [response EXCEPT ![t] = Nil]
    /\ outcome' = [outcome EXCEPT ![t] = Nil]
    /\ UNCHANGED <<client, construction>>

(***************************************************************************)
(* The inputs: what callers pass and what the transport answers.           *)
(***************************************************************************)
\* an optional string parameter: omitted, empty, or supplied
Opt3(p) == {None, Str(""), Str(p)}
\* omitted or supplied
Opt2(p) == {None, Str(p)}

Chars == {"h", "/"}
BaseUrls == UNION {[1..n -> Chars] : n \in 0..MaxBaseLen}
ApiKeys == {None, Str(""), Str("key-1")}
Timeouts == {30}

TrackArgs ==
    [amount : {Num(10000)}, date : {Str("2024-01-15")}, currency : {Str("USD")},
     uetr : Opt3("uetr-1"), ref : Opt3("ref-1")]

ChangeArgs ==
    [amount : {Num(10000)}, date : {Str("2024-01-15")}, currency : {Str("USD")},
     status : Opt3("success"), role : Opt3("correspondent"),
     uetr : Opt3("uetr-1"), ref : Opt2("ref-1"),
     swift : Opt3("DEUTDEFF"), next_name : Opt2("Next Bank"),
     next_swift : Opt2("CHASUS33"), message : Opt2("msg"), details : Opt2("det")]

ValidateArgs ==
    [beneficiary_bic : Opt3("DEUTDEFF"), currency : Opt3("EUR"),
     correspondent_bic : Opt3("COBADEFF"), correspondent_account : Opt2("acc"),
     beneficiary_iban : Opt2("DE89"), beneficiary_owner : Opt2("owner"),
     beneficiary_country : Opt2("DE"), beneficiary_region : Opt2("BY"),
     sender_bic : Opt2("CHASUS33"), sender_correspondent_bic : Opt2("CITIUS33")]

GetSsiArgs == [swift : Opt3("DEUTDEFF"), currency : Opt3("EUR")]

\* response bodies, as bytes on the wire
JString(s) == [j |-> "string", v |-> s]
JsonBytes(doc) == [enc |-> "utf-8", text |-> [json |-> "valid", doc |-> doc]]
\* {"status": "success"}
SuccessBody == JsonBytes([j |-> "object", v |-> [status |-> JString("success")]])
\* {"message": "invalid uetr", "errors": {"uetr": ["bad format"]}}
RejectionBody ==
    JsonBytes([j |-> "object",
               v |-> [message |-> JString("invalid uetr"),
                      errors  |-> [j |-> "object",
                                   v |-> [uetr |-> [j |-> "array",
                                                    v |-> <<JString("bad format")>>]]]]])
\* ["error"]
ArrayBody == JsonBytes([j |-> "array", v |-> <<JString("error")>>])
\* text that is no JSON document, such as an HTML error page
HtmlBody == [enc |-> "utf-8", text |-> [json |-> "invalid"]]
\* bytes that are no UTF-8 text
BinaryBody == [enc |-> "invalid"]

\* the transport's answers: a status with one of these bodies
BodyNames == {"success", "rejection", "array", "html", "binary"}
BodyOf(name) ==
    CASE name = "success"   -> SuccessBody
      [] name = "rejection" -> RejectionBody
      [] name = "array"     -> ArrayBody
      [] name = "html"      -> HtmlBody
      [] name = "binary"    -> BinaryBody
Statuses == {200, 201, 422, 500}
Response(status, name) == [kind |-> "response", status |-> status, body |-> BodyOf(name)]

(***************************************************************************)
(* One caller at a time.                                                   *)
(***************************************************************************)
Init ==
    /\ client = NoClient
    /\ construction = Nil
    /\ pc = [t \in Threads |-> "idle"]
    /\ op = [t \in Threads |-> Nil]
    /\ args = [t \in Threads |-> Nil]
    /\ data = [t \in Threads |-> Nil]
    /\ request = [t \in Threads |-> Nil]
    /\ sent = [t \in Threads |-> 0]
    /\ response = [t \in Threads |-> Nil]
    /\ outcome = [t \in Threads |-> Nil]

Next ==
    \/ \E k \in ApiKeys, b \in BaseUrls, s \in Timeouts : Ohmyfin_init(k, b, s)
    \/ track(MainThread, TrackArgs)
    \/ change(MainThread, ChangeArgs)
    \/ validate(MainThread, ValidateArgs)
    \/ get_ssi(MainThread, GetSsiArgs)
    \/ request_urlopen(MainThread)
    \/ \E c \in Statuses, b \in BodyNames : urlopen_returns(MainThread, Response(c, b))
    \/ \E c \in Statuses, b \in BodyNames : urlopen_HTTPError(MainThread, Response(c, b))
    \/ urlopen_fails(MainThread)
    \/ Return(MainThread)

Spec == Init /\ [][Next]_vars

(***************************************************************************)
(* Several callers share the client: every thread calls, sends and is      *)
(* answered in any interleaving with the others.                           *)
(***************************************************************************)
SharedApiKeys == {None, Str("key-1")}
SharedBaseUrls == {<<"h", "/">>}

SharedTrackArgs ==
    [amount : {Num(10000)}, date : {Str("2024-01-15")}, currency : {Str("USD")},
     uetr : {None, Str("uetr-1")}, ref : {None, Str("ref-1")}]

SharedChangeArgs ==
    [amount : {Num(10000)}, date : {Str("2024-01-15")}, currency : {Str("USD")},
     status : {Str("success")}, role : {Str("correspondent")},
     uetr : {Str("uetr-1")}, ref : {None},
     swift : {None}, next_name : {Str("Next Bank")},
     next_swift : {None}, message : {None}, details : {None}]

SharedValidateArgs ==
    [beneficiary_bic : {Str("DEUTDEFF")}, currency : {Str("EUR")},
     correspondent_bic : {None}, correspondent_account : {None},
     beneficiary_iban : {Str("DE89")}, beneficiary_owner : {None},
     beneficiary_country : {None}, beneficiary_region : {None},
     sender_bic : {None}, sender_correspondent_bic : {None}]

SharedGetSsiArgs == [swift : {Str("DEUTDEFF")}, currency : {Str("EUR"), Str("USD")}]

SharedStatuses == {200, 422}
SharedBodyNames == {"success", "rejection"}

NextShared ==
    \/ \E k \in SharedApiKeys, b \in SharedBaseUrls, s \in Timeouts : Ohmyfin_init(k, b, s)
    \/ \E t \in Threads : track(t, SharedTrackArgs)
    \/ \E t \in Threads : change(t, SharedChangeArgs)
    \/ \E t \in Threads : validate(t, SharedValidateArgs)
    \/ \E t \in Threads : get_ssi(t, SharedGetSsiArgs)
    \/ \E t \in Threads : request_urlopen(t)
    \/ \E t \in Threads, c \in SharedStatuses, b \in SharedBodyNames :
          urlopen_returns(t, Response(c, b))
    \/ \E t \in Threads, c \in SharedStatuses, b \in SharedBodyNames :
          urlopen_HTTPError(t, Response(c, b))
    \/ \E t \in Threads : urlopen_fails(t)
    \/ \E t \in Threads : Return(t)

SpecShared == Init /\ [][NextShared]_vars

(***************************************************************************)
(* The claims.                                                             *)
(***************************************************************************)
\* a parameter that is absent or empty
Absent(x) == x.t = "None" \/ (x.t = "str" /\ x.v = "")
\* a parameter supplied with a non-empty value
Supplied(x) == ~Absent(x)

\* the required-parameter condition of each operation is violated
RequiredViolated(o, a) ==
    CASE o = "track"    -> Absent(a.uetr) /\ Absent(a.ref)
      [] o = "change"   -> \/ Absent(a.uetr) /\ Absent(a.ref)
                           \/ Absent(a.status)
                           \/ Absent(a.role)
      [] o = "validate" -> Absent(a.beneficiary_bic) \/ Absent(a.currency)
      [] o = "get_ssi"  -> Absent(a.swift) \/ Absent(a.currency)

InCall(t) == pc[t] # "idle"
IsRaise(o, type) == o.kind = "raise" /\ o.exc.type = type

\* C1: a call of track, change, validate or get_ssi whose required-parameter
\* condition is violated fails with a validation error (ValueError), and no
\* HTTP request has been issued when the error reaches the caller.
C1_ValidationBeforeRequest ==
    \A t \in Threads :
        InCall(t) /\ RequiredViolated(op[t], args[t]) =>
            /\ pc[t] = "done"
            /\ IsRaise(outcome[t], "ValueError")
            /\ sent[t] = 0

\* a call of change with uetr supplied and role empty has failed
C1_Witness ==
    \E t \in Threads :
        /\ pc[t] = "done" /\ op[t] = "change"
        /\ Supplied(args[t].uetr) /\ Supplied(args[t].status)
        /\ args[t].role = Str("")
        /\ IsRaise(outcome[t], "ValueError") /\ sent[t] = 0

\* the optional parameters of each operation, and the documented wire key of each
OptionalParams(o) ==
    CASE o = "track"    -> {"uetr", "ref"}
      [] o = "change"   -> {"uetr", "ref", "swift", "next_name", "next_swift",
                            "message", "details"}
      [] o = "validate" -> {"correspondent_bic", "correspondent_account",
                            "beneficiary_iban", "beneficiary_owner",
                            "beneficiary_country", "beneficiary_region",
                            "sender_bic", "sender_correspondent_bic"}
      [] o = "get_ssi"  -> {}

WireKey(p) ==
    CASE p = "next_name"  -> "nextName"
      [] p = "next_swift" -> "nextSwift"
      [] OTHER            -> p

\* thread t's call has issued a request
HasSent(t) == pc[t] \in {"urlopen", "done"} /\ sent[t] > 0

\* the members of the JSON object that is the body of thread t's request
BodyMembers(t) == request[t].data.text.doc.v

\* C4: the outgoing JSON body holds an optional field's documented wire key
\* (next_name as nextName, next_swift as nextSwift, the others under their own
\* name), with the supplied value, exactly when the parameter was supplied
\* with a non-empty value; an omitted optional parameter is no key of the
\* body, not even with a null value.
C4_OptionalFieldsOnWire ==
    \A t \in Threads :
        HasSent(t) =>
            /\ request[t].data.enc = "utf-8"
            /\ request[t].data.text.json = "valid"
            /\ request[t].data.text.doc.j = "object"
            /\ \A p \in OptionalParams(op[t]) :
                  IF Supplied(args[t][p])
                  THEN /\ WireKey(p) \in DOMAIN BodyMembers(t)
                       /\ BodyMembers(t)[WireKey(p)] = [j |-> "string", v |-> args[t][p].v]
                  ELSE WireKey(p) \notin DOMAIN BodyMembers(t)

\* a change request on the wire with next_name supplied, swift empty and
\* next_swift omitted
C4_Witness ==
    \E t \in Threads :
        /\ HasSent(t) /\ op[t] = "change"
        /\ Supplied(args[t].next_name)
        /\ args[t].swift = Str("")
        /\ args[t].next_swift = None
        /\ "nextName" \in DOMAIN BodyMembers(t)
        /\ "swift" \notin DOMAIN BodyMembers(t)

\* the fixed path of each operation
FixedPath(o) ==
    CASE o = "track"    -> "/api/track"
      [] o = "change"   -> "/api/change"
      [] o = "validate" -> "/api/validate"
      [] o = "get_ssi"  -> "/api/getssi"

\* url is base with every trailing slash removed, followed by path
IsStrippedThenPath(url, base, path) ==
    \E k \in 0..Len(base) :
        LET stem == SubSeq(base, 1, Len(base) - k)
        IN  /\ \A i \in (Len(base) - k + 1)..Len(base) : base[i] = "/"
            /\ stem = <<>> \/ stem[Len(stem)] # "/"
            /\ url = stem \o <<path>>

C6_CredentialRequired ==
    construction # Nil /\ Absent(construction.api_key) =>
        /\ IsRaise(construction.outcome, "ValueError")
        /\ client = NoClient

\* a construction with an empty credential and a base address has failed
C6_Witness ==
    /\ construction # Nil
    /\ construction.api_key = Str("")
    /\ construction.base_url = <<"h", "/">>
    /\ IsRaise(construction.outcome, "ValueError")
    /\ client = NoClient

\* the Python value x is what the JSON document d denotes
RECURSIVE Denotes(_, _)
Denotes(d, x) ==
    CASE d.j = "null"   -> x.t = "None"
      [] d.j = "string" -> x.t = "str" /\ x.v = d.v
      [] d.j = "number" -> x.t = "num" /\ x.v = d.v
      [] d.j = "object" -> /\ x.t = "dict"
                           /\ DOMAIN x.v = DOMAIN d.v
                           /\ \A k \in DOMAIN d.v : Denotes(d.v[k], x.v[k])
      [] d.j = "array"  -> /\ x.t = "list"
                           /\ DOMAIN x.v = DOMAIN d.v
                           /\ \A i \in DOMAIN d.v : Denotes(d.v[i], x.v[i])

Is2xx(r) == r.kind = "response" /\ r.status \in 200..299
IsJson(b) == b.enc = "utf-8" /\ b.text.json = "valid"

\* C7: for each operation, a 2xx response with a JSON body makes the call
\* return the decoded body: no field added, removed or changed.
C7_BodyReturnedAsIs ==
    \A t \in Threads :
        pc[t] = "done" /\ sent[t] > 0 /\ Is2xx(response[t]) /\ IsJson(response[t].body) =>
            /\ outcome[t].kind = "value"
            /\ Denotes(response[t].body.text.doc, outcome[t].value)

\* validate has returned the mapping of a 201 response
C7_Witness ==
    \E t \in Threads :
        /\ pc[t] = "done" /\ op[t] = "validate" /\ sent[t] = 1
        /\ response[t].kind = "response" /\ response[t].status = 201
        /\ outcome[t].kind = "value"
        /\ outcome[t].value.t = "dict"
        /\ DOMAIN outcome[t].value.v = {"status"}

IsNon2xx(r) == r.kind = "response" /\ r.status \notin 200..299
Answered(t) == pc[t] = "done" /\ sent[t] > 0

\* C2: for every non-2xx response whose body cannot be decoded as JSON (any
\* status, any such body, arbitrary bytes included), the call raises an API
\* error (OhmyfinError) whose status code is the response status and whose
\* message names that status; no decode error reaches the caller.
C2_UndecodableErrorBody ==
    \A t \in Threads :
        Answered(t) /\ IsNon2xx(response[t]) /\ ~IsJson(response[t].body) =>
            /\ IsRaise(outcome[t], "OhmyfinError")
            /\ outcome[t].exc.status_code = Num(response[t].status)
            /\ outcome[t].exc.message =
                  Str("API request failed with status " \o ToString(response[t].status))

\* C3: for every non-2xx response whose body decodes as JSON, the call raises
\* an API error (OhmyfinError) whose message is the body's "message" value,
\* whose status code is the HTTP status, and whose errors mapping is the
\* body's "errors" value when the body supplies one.
C3_DecodedErrorBody ==
    \A t \in Threads :
        Answered(t) /\ IsNon2xx(response[t]) /\ IsJson(response[t].body) =>
            LET doc == response[t].body.text.doc
                has(k) == doc.j = "object" /\ k \in DOMAIN doc.v
            IN  /\ IsRaise(outcome[t], "OhmyfinError")
                /\ outcome[t].exc.status_code = Num(response[t].status)
                /\ has("message") => Denotes(doc.v["message"], outcome[t].exc.message)
                /\ has("errors") => Denotes(doc.v["errors"], outcome[t].exc.errors)

\* C9: after any sequence of calls, whatever each handed to its caller, the
\* client's credential, base address and timeout are the values they had
\* when construction finished.
C9_ConfigurationFixed ==
    client # NoClient =>
        /\ construction.outcome.kind = "value"
        /\ client.api_key = construction.outcome.value.api_key
        /\ client.base_url = construction.outcome.value.base_url
        /\ client.timeout = construction.outcome.value.timeout

\* a call has raised an API error on a client whose base address was given
\* with a trailing slash, and the configuration is as constructed
C9_Witness ==
    /\ client # NoClient
    /\ construction.base_url = <<"h", "/">>
    /\ client.base_url = <<"h">>
    /\ \E t \in Threads : pc[t] = "done" /\ IsRaise(outcome[t], "OhmyfinError")

\* C10: an error of the local-validation kind (one that `except ValueError`
\* catches) reaches the caller only when no request has been sent; every
\* error after a request was issued is of a kind that handler does not catch.
C10_ValidationKindOnlyBeforeRequest ==
    \A t \in Threads :
        pc[t] = "done" /\ outcome[t].kind = "raise" /\ Catches("ValueError", outcome[t].exc)
            => sent[t] = 0

\* the parameters each operation always sends
RequiredParams(o) ==
    CASE o = "track"    -> {"amount", "date", "currency"}
      [] o = "change"   -> {"amount", "date", "currency", "status", "role"}
      [] o = "validate" -> {"beneficiary_bic", "currency"}
      [] o = "get_ssi"  -> {"swift", "currency"}

\* the parameters of thread t's call that belong on the wire
SentParams(t) ==
    RequiredParams(op[t]) \cup {p \in OptionalParams(op[t]) : Supplied(args[t][p])}

\* thread t's request is the one its own arguments and the configuration give
RequestIsOwn(t) ==
    /\ request[t].full_url = client.base_url \o <<FixedPath(op[t])>>
    /\ request[t].method = "POST"
    /\ request[t].timeout = client.timeout
    /\ request[t].headers.KEY = client.api_key
    /\ request[t].data.enc = "utf-8"
    /\ request[t].data.text.json = "valid"
    /\ request[t].data.text.doc.j = "object"
    /\ DOMAIN BodyMembers(t) = {WireKey(p) : p \in SentParams(t)}
    /\ \A p \in SentParams(t) : Denotes(BodyMembers(t)[WireKey(p)], args[t][p])

\* thread t's result or error is the one its own arguments and the response
\* to its own request give
OutcomeIsOwn(t) ==
    IF sent[t] = 0
    THEN RequiredViolated(op[t], args[t]) /\ IsRaise(outcome[t], "ValueError")
    ELSE LET r == response[t]
         IN  CASE r.kind = "failure" -> IsRaise(outcome[t], "URLError")
               [] Is2xx(r) ->
                     IF IsJson(r.body)
                     THEN /\ outcome[t].kind = "value"
                          /\ Denotes(r.body.text.doc, outcome[t].value)
                     ELSE outcome[t].kind = "raise"
               [] IsNon2xx(r) ->
                     /\ outcome[t].kind = "raise"
                     /\ outcome[t].exc.type = "OhmyfinError" =>
                           /\ outcome[t].exc.status_code = Num(r.status)
                           /\ IsJson(r.body) /\ r.body.text.doc.j = "object"
                                 /\ "message" \in DOMAIN r.body.text.doc.v =>
                                 Denotes(r.body.text.doc.v["message"],
                                         outcome[t].exc.message)

\* C8: when several threads call the same client in any interleaving, each
\* call's request (URL, headers, body) and its result or error are given by
\* that call's own arguments, the configuration and the response to its own
\* request; no call sees or changes another call's payload, response or error.
C8_CallsIndependent ==
    \A t \in Threads :
        /\ HasSent(t) => RequestIsOwn(t)
        /\ pc[t] = "done" => OutcomeIsOwn(t)

\* two calls of different operations overlap: one waits for its response
\* while the other, sent meanwhile, has raised an API error
C8_Witness ==
    \E t, u \in Threads :
        /\ t # u
        /\ pc[t] = "urlopen"
        /\ pc[u] = "done" /\ sent[u] = 1
        /\ op[t] # op[u]
        /\ IsRaise(outcome[u], "OhmyfinError")

====
